---------------------------- MODULE Spec2Model ----------------------------
(***************************************************************************)
(* Model of the Gemini SOLUSD ingestion process (ingest/src/main.rs) and   *)
(* of the memory-mapped stores it writes (shared/src/lib.rs).              *)
(*                                                                         *)
(* Two tokio tasks run in the process: ob_task mirrors the v2 depth feed   *)
(* into the OrderBook store, top_task mirrors the v1 feed into the         *)
(* TopOfBook store and builds a TradeEvent per trade.                      *)
(***************************************************************************)
EXTENDS Integers, Sequences, FiniteSets, TLC

(***************************************************************************)
(* Program constants.                                                      *)
(***************************************************************************)
BOOK_DEPTH == 50

SCAN_WINDOW == 10

RETRY_SECS == 5

MICROS == 1000000

F64_MANT_BITS == 53

(***************************************************************************)
(* IEEE-754 binary64 arithmetic, as far as the conversion                  *)
(*     s.parse::<f64>()  ->  (p * 1_000_000.0) as u64                      *)
(* needs it.  Integers wider than TLC's are kept as bit sequences, most    *)
(* significant bit first.                                                  *)
(***************************************************************************)
Digits == {"0", "1", "2", "3", "4", "5", "6", "7", "8", "9"}

DigitVal(c) ==
    CASE c = "0" -> 0 [] c = "1" -> 1 [] c = "2" -> 2 [] c = "3" -> 3
      [] c = "4" -> 4 [] c = "5" -> 5 [] c = "6" -> 6 [] c = "7" -> 7
      [] c = "8" -> 8 [] c = "9" -> 9

RECURSIVE Pow10(_)
Pow10(k) == IF k = 0 THEN 1 ELSE 10 * Pow10(k - 1)

Zeros(n) == [i \in 1..n |-> 0]

RECURSIVE Pow2(_)
Pow2(k) == IF k = 0 THEN 1 ELSE 2 * Pow2(k - 1)

RECURSIVE BitsOf(_)
BitsOf(n) == IF n = 0 THEN << >> ELSE BitsOf(n \div 2) \o <<n % 2>>

RECURSIVE IntOf(_)
IntOf(b) ==
    IF b = << >> THEN 0
    ELSE 2 * IntOf(SubSeq(b, 1, Len(b) - 1)) + b[Len(b)]

StripZeros(b) ==
    LET ones == {i \in 1..Len(b) : b[i] = 1}
    IN  IF ones = {} THEN << >>
        ELSE SubSeq(b, CHOOSE i \in ones : \A j \in ones : i <= j, Len(b))

AnyOne(b) == \E i \in 1..Len(b) : b[i] = 1

\* b + 1 on a bit sequence; the result is one bit longer on carry-out.
IncBits(b) ==
    LET zs == {i \in 1..Len(b) : b[i] = 0}
    IN  IF zs = {} THEN <<1>> \o Zeros(Len(b))
        ELSE LET z == CHOOSE i \in zs : \A j \in zs : j <= i
             IN  [i \in 1..Len(b) |-> IF i < z THEN b[i] ELSE IF i = z THEN 1 ELSE 0]

\* Wide integers are multiplied and divided in limbs of 10 bits (base 1024),
\* most significant limb first.
LimbsOfBits(b) ==
    LET pad == (10 - (Len(b) % 10)) % 10
        pb  == Zeros(pad) \o b
    IN  [j \in 1..(Len(pb) \div 10) |-> IntOf(SubSeq(pb, 10 * (j - 1) + 1, 10 * j))]

BitsOfLimbs(l) ==
    [i \in 1..(10 * Len(l)) |->
        (l[((i - 1) \div 10) + 1] \div Pow2(9 - ((i - 1) % 10))) % 2]

\* Quotient and remainder of the limb sequence l by the small integer d.
RECURSIVE DivLimbs(_, _, _, _)
DivLimbs(l, d, q, r) ==
    IF l = << >> THEN [q |-> q, r |-> r]
    ELSE LET t == 1024 * r + l[1]
         IN  DivLimbs(Tail(l), d, q \o <<t \div d>>, t % d)

\* Product of the limb sequence l by the small integer c.
RECURSIVE MulLimbs(_, _, _)
MulLimbs(l, c, carry) ==
    IF l = << >> THEN LimbsOfBits(BitsOf(carry))
    ELSE LET t == l[Len(l)] * c + carry
         IN  MulLimbs(SubSeq(l, 1, Len(l) - 1), c, t \div 1024) \o <<t % 1024>>

\* Round-to-nearest-even of  b * 2^e (+ a non-zero tail iff sticky)  to a
\* 53-bit significand: the f64 with significand bits m and exponent e.
RoundF64(b0, sticky, e0) ==
    LET b == StripZeros(b0)
        n == Len(b)
    IN  IF n = 0 THEN [m |-> << >>, e |-> 0]
        ELSE IF n <= F64_MANT_BITS
             THEN [m |-> b \o Zeros(F64_MANT_BITS - n), e |-> e0 - (F64_MANT_BITS - n)]
        ELSE LET keep  == SubSeq(b, 1, F64_MANT_BITS)
                 guard == b[F64_MANT_BITS + 1]
                 rest  == SubSeq(b, F64_MANT_BITS + 2, n)
                 st    == sticky \/ AnyOne(rest)
                 up    == guard = 1 /\ (st \/ keep[F64_MANT_BITS] = 1)
                 r     == IF up THEN IncBits(keep) ELSE keep
             IN  IF Len(r) > F64_MANT_BITS
                 THEN [m |-> SubSeq(r, 1, F64_MANT_BITS), e |-> e0 + (n - F64_MANT_BITS) + 1]
                 ELSE [m |-> r, e |-> e0 + (n - F64_MANT_BITS)]

(***************************************************************************)
(* str::parse::<f64>() on a string given as a sequence of characters.      *)
(* Accepted here: an optional sign, digits with at most one '.', at least  *)
(* one digit.  (Rust also accepts exponents and the words inf / nan; the   *)
(* strings of this model contain neither.)  The result is the decimal      *)
(* m / 10^k with its sign, or ok = FALSE for Err.                          *)
(***************************************************************************)
RECURSIVE AllDigits(_)
AllDigits(s) == s = << >> \/ (s[1] \in Digits /\ AllDigits(Tail(s)))

RECURSIVE DecVal(_)
DecVal(s) ==
    IF s = << >> THEN 0
    ELSE 10 * DecVal(SubSeq(s, 1, Len(s) - 1)) + DigitVal(s[Len(s)])

RECURSIVE DotPos(_, _)
DotPos(s, i) ==
    IF i > Len(s) THEN 0 ELSE IF s[i] = "." THEN i ELSE DotPos(s, i + 1)

ParseDecimal(s) ==
    LET signed == s # << >> /\ s[1] \in {"+", "-"}
        neg    == s # << >> /\ s[1] = "-"
        body   == IF signed THEN Tail(s) ELSE s
        dot    == DotPos(body, 1)
        ip     == IF dot = 0 THEN body ELSE SubSeq(body, 1, dot - 1)
        fp     == IF dot = 0 THEN << >> ELSE SubSeq(body, dot + 1, Len(body))
    IN  IF AllDigits(ip) /\ AllDigits(fp) /\ Len(ip) + Len(fp) >= 1
        THEN [ok |-> TRUE, neg |-> neg, m |-> DecVal(ip \o fp), k |-> Len(fp)]
        ELSE [ok |-> FALSE, neg |-> FALSE, m |-> 0, k |-> 0]

\* The f64 nearest to m / 10^k (ties to even).
F64OfDecimal(m, k) ==
    LET d == DivLimbs(LimbsOfBits(BitsOf(m) \o Zeros(90)), Pow10(k), << >>, 0)
    IN  RoundF64(BitsOfLimbs(d.q), d.r # 0, -90)

\* f64 multiplication by the exactly representable 1_000_000.0.
F64TimesMicros(f) ==
    RoundF64(BitsOfLimbs(MulLimbs(LimbsOfBits(f.m), MICROS, 0)), FALSE, f.e)

\* "as u64": truncation toward zero; negative values saturate to 0.
\* (Values of 2^31 and more do not occur with the strings of this model.)
F64AsU64(neg, f) ==
    IF neg \/ f.m = << >> THEN 0
    ELSE IF -f.e >= F64_MANT_BITS THEN 0
    ELSE IntOf(SubSeq(f.m, 1, F64_MANT_BITS + f.e))

\* (x * 1_000_000.0) as u64  for the f64 x parsed from the decimal d.
MicrosOfDecimal(d) == F64AsU64(d.neg, F64TimesMicros(F64OfDecimal(d.m, d.k)))

\* Multiply-by-10^6-and-truncate in exact decimal arithmetic.
ExactMicros(d) ==
    IF d.neg THEN 0
    ELSE IF d.k <= 6 THEN d.m * Pow10(6 - d.k) ELSE d.m \div Pow10(d.k - 6)

(***************************************************************************)
(* serde_json::Value, as far as the handlers look at it.  Strings are      *)
(* sequences of characters.  JAbsent is the None of Value::get.            *)
(***************************************************************************)
JAbsent == [t |-> "absent"]

JStr(s) == [t |-> "str", s |-> s]

JNum(n) == [t |-> "num", n |-> n]

JArr(a) == [t |-> "arr", a |-> a]

\* v.get(i) with an integer index: Some only on an array that is long enough.
GetIdx(v, i) == IF v.t = "arr" /\ i < Len(v.a) THEN v.a[i + 1] ELSE JAbsent

\* v.get(key) with a string key: Some only on an object that has the key.
GetKey(v, key) ==
    IF v.t = "obj" /\ key \in DOMAIN v.f THEN v.f[key] ELSE JAbsent

IsArray(x) == x.t = "arr"

IsStr(x) == x.t = "str"

\* as_u64(): Some on a non-negative integer number.
IsU64(x) == x.t = "num" /\ x.n >= 0

\* The price and quantity strings of the feed of this model.
sHi == <<"1", "4", "5", ".", "8", "5">>

sMid == <<"9", ".", "5">>

sLo == <<"4", ".", "1">>

sQty == <<"2", ".", "5">>

sQty2 == <<"1", ".", "8">>

sZero == <<"0">>

sBad == <<"x">>

FeedStrings == {sHi, sMid, sLo, sQty, sQty2, sZero, sBad}

\* The conversion of each feed string, computed once.
ParsedFeed == [s \in FeedStrings |-> ParseDecimal(s)]

MicrosFeed ==
    [s \in FeedStrings |->
        IF ParsedFeed[s].ok THEN MicrosOfDecimal(ParsedFeed[s]) ELSE 0]

\* s.parse::<f64>()
ParseF64(s) == IF s \in FeedStrings THEN ParsedFeed[s] ELSE ParseDecimal(s)

\* s.parse::<f64>() followed by (f * 1_000_000.0) as u64
MicrosOfStr(s) ==
    IF s \in FeedStrings THEN MicrosFeed[s] ELSE MicrosOfDecimal(ParseDecimal(s))

\* .as_str().and_then(|s| s.parse::<f64>().ok()): is it Some?
ParsesF64(x) == IsStr(x) /\ ParseF64(x.s).ok

\* (f * 1_000_000.0) as u64 of the f64 that ParsesF64(x) found.
ToMicros(x) == MicrosOfStr(x.s)

\* ....unwrap_or(0.0), then (f * 1_000_000.0) as u64.
ToMicrosOrZero(x) == IF ParsesF64(x) THEN ToMicros(x) ELSE 0

UpperCase == <<"A", "B", "C", "D", "E", "F", "G", "H", "I", "J", "K", "L", "M",
               "N", "O", "P", "Q", "R", "S", "T", "U", "V", "W", "X", "Y", "Z">>

LowerCase == <<"a", "b", "c", "d", "e", "f", "g", "h", "i", "j", "k", "l", "m",
               "n", "o", "p", "q", "r", "s", "t", "u", "v", "w", "x", "y", "z">>

ToAsciiLower(c) ==
    IF \E i \in 1..26 : UpperCase[i] = c
    THEN LowerCase[CHOOSE i \in 1..26 : UpperCase[i] = c]
    ELSE c

eq_ignore_ascii_case(a, b) ==
    /\ Len(a) = Len(b)
    /\ \A i \in 1..Len(a) : ToAsciiLower(a[i]) = ToAsciiLower(b[i])

(***************************************************************************)
(* shared/src/lib.rs: the stores.                                          *)
(***************************************************************************)
Slots == 0..(BOOK_DEPTH - 1)

OrderLevel(p, q) == [price |-> p, qty |-> q]

\* store_price writing the other field of the level.
store_price_intoQty(l, v) == [l EXCEPT !.qty = v]

\* The per-field primitives: one volatile access of one aligned u64 each.
store_price(l, v) == [l EXCEPT !.price = v]

store_qty(l, v) == [l EXCEPT !.qty = v]

load_price(l) == l.price

load_qty(l) == l.qty

\* The OrderBook of a freshly created (zero-filled) backing file.
ZeroBook ==
    [bids |-> [i \in Slots |-> OrderLevel(0, 0)],
     asks |-> [i \in Slots |-> OrderLevel(0, 0)],
     timestamp_ms |-> 0]

ZeroTop ==
    [bid_price |-> 0, bid_qty |-> 0, ask_price |-> 0, ask_qty |-> 0,
     timestamp_ms |-> 0]

(***************************************************************************)
(* shared/src/lib.rs: OrderBook::mmap and TopOfBook::mmap.  A backing file *)
(* is whether it exists and, if so, its content as a sequence of 8-byte    *)
(* words (every field of both structures is a u64; lengths that are not a  *)
(* multiple of 8 bytes are left out).                                      *)
(***************************************************************************)
NoFile == [exists |-> FALSE, words |-> << >>]

\* size_of::<OrderLevel>(), size_of::<OrderBook>() and
\* size_of::<TopOfBook>(), in words.
LEVEL_WORDS == 2

OB_WORDS == 2 * BOOK_DEPTH * LEVEL_WORDS + 1

TOB_WORDS == 5

\* The #[repr(C)] layout: the structure a mapping of OB_WORDS words is read
\* as (&mut *(ptr as *mut Self)), and the words of a structure.
BookOfWords(w) ==
    [bids |-> [i \in Slots |->
                 OrderLevel(w[LEVEL_WORDS * i + 1], w[LEVEL_WORDS * i + 2])],
     asks |-> [i \in Slots |->
                 OrderLevel(w[LEVEL_WORDS * (BOOK_DEPTH + i) + 1],
                            w[LEVEL_WORDS * (BOOK_DEPTH + i) + 2])],
     timestamp_ms |-> w[OB_WORDS]]

WordsOfBook(b) ==
    [k \in 1..OB_WORDS |->
        IF k = OB_WORDS THEN b.timestamp_ms
        ELSE LET j   == (k - 1) \div LEVEL_WORDS
                 lvl == IF j < BOOK_DEPTH THEN b.bids[j] ELSE b.asks[j - BOOK_DEPTH]
             IN  IF (k - 1) % LEVEL_WORDS = 0 THEN lvl.price ELSE lvl.qty]

TopOfWords(w) ==
    [bid_price |-> w[1], bid_qty |-> w[2], ask_price |-> w[3], ask_qty |-> w[4],
     timestamp_ms |-> w[5]]

WordsOfTop(t) ==
    <<t.bid_price, t.bid_qty, t.ask_price, t.ask_qty, t.timestamp_ms>>

\* open(path) that truncates an existing file.
OpenCreate_truncate(f) == [exists |-> TRUE, words |-> << >>]

\* OpenOptions::new().read(true).write(true).create(true).open(path)
OpenCreate(f) == IF f.exists THEN f ELSE [exists |-> TRUE, words |-> << >>]

\* file.set_len(n): the file is cut, or extended with zero words, to n words.
SetLen(f, n) ==
    [f EXCEPT !.words = [k \in 1..n |-> IF k <= Len(f.words) THEN f.words[k] ELSE 0]]

\* The Result of one mmap call: Ok, or the Err of open, set_len or map_mut.
BindOutcomes == {"ok", "open_failed", "set_len_failed", "map_failed"}

BindErrors == BindOutcomes \ {"ok"}

\* The file a call of mmap leaves behind (lines 44-46 and 68-70).
FileAfterMmap(f, n, outcome) ==
    CASE outcome = "open_failed"    -> f
      [] outcome = "set_len_failed" -> OpenCreate(f)
      [] OTHER                      -> SetLen(OpenCreate(f), n)

\* A book and a top of book before their files are mapped: no structure.
NoBook == [bids |-> << >>, asks |-> << >>, timestamp_ms |-> 0]

NoTop == [bid_price |-> -1, bid_qty |-> -1, ask_price |-> -1, ask_qty |-> -1,
          timestamp_ms |-> -1]

\* The operator ? with the error dropped: main goes on.
Propagate_dropped(outcome, next) == next

\* The operator ? on the Result of mmap in main (lines 23-24): go on to
\* next on Ok, return the Err from main otherwise.
Propagate(outcome, next) == IF outcome = "ok" THEN next ELSE "failed"

\* update_bid as a merge: the quantity is added to the slot's quantity.
update_bid_accumulate(ob, i, price, qty) ==
    IF i < BOOK_DEPTH
    THEN [ob EXCEPT !.bids[i] = OrderLevel(price, ob.bids[i].qty + qty)]
    ELSE ob

update_bid(ob, i, price, qty) ==
    IF i < BOOK_DEPTH
    THEN [ob EXCEPT !.bids[i] = OrderLevel(price, qty)]
    ELSE ob

\* update_ask with the two stores crossed: price into qty, qty into price.
update_ask_crossed(ob, i, price, qty) ==
    IF i < BOOK_DEPTH
    THEN [ob EXCEPT !.asks[i] = OrderLevel(qty, price)]
    ELSE ob

update_ask(ob, i, price, qty) ==
    IF i < BOOK_DEPTH
    THEN [ob EXCEPT !.asks[i] = OrderLevel(price, qty)]
    ELSE ob

set_ts(st, ts) == [st EXCEPT !.timestamp_ms = ts]

set_bid(tob, p, q) == [tob EXCEPT !.bid_price = p, !.bid_qty = q]

set_ask(tob, p, q) == [tob EXCEPT !.ask_price = p, !.ask_qty = q]

Min(a, b) == IF a <= b THEN a ELSE b

(***************************************************************************)
(* ob_task: what one received text frame does to the OrderBook.            *)
(***************************************************************************)
\* The bids loop followed by a clearing of the slots behind the list.
SnapshotBids_clearing(ob, levels) ==
    [ob EXCEPT !.bids =
        [i \in Slots |->
            IF i < Min(Len(levels), BOOK_DEPTH)
            THEN update_bid(ob, i, ToMicrosOrZero(GetIdx(levels[i + 1], 0)),
                                   ToMicrosOrZero(GetIdx(levels[i + 1], 1))).bids[i]
            ELSE OrderLevel(0, 0)]]

\* for (i, lvl) in bids.iter().take(BOOK_DEPTH).enumerate() { update_bid }
\* Iteration i is the only one that writes slot i (update_bid(i, ..) writes
\* bids[i] alone), so the loop is evaluated slot by slot.
SnapshotBids(ob, levels) ==
    [ob EXCEPT !.bids =
        [i \in Slots |->
            IF i < Min(Len(levels), BOOK_DEPTH)
            THEN update_bid(ob, i, ToMicrosOrZero(GetIdx(levels[i + 1], 0)),
                                   ToMicrosOrZero(GetIdx(levels[i + 1], 1))).bids[i]
            ELSE ob.bids[i]]]

SnapshotAsks(ob, levels) ==
    [ob EXCEPT !.asks =
        [i \in Slots |->
            IF i < Min(Len(levels), BOOK_DEPTH)
            THEN update_ask(ob, i, ToMicrosOrZero(GetIdx(levels[i + 1], 0)),
                                   ToMicrosOrZero(GetIdx(levels[i + 1], 1))).asks[i]
            ELSE ob.asks[i]]]

\* if let Some(ts) = v.get("timestampms").and_then(|t| t.as_u64()) { set_ts }
StoreTs(st, v) ==
    IF IsU64(GetKey(v, "timestampms"))
    THEN set_ts(st, GetKey(v, "timestampms").n)
    ELSE st

\* The bid scan without the priority test: only an empty slot is claimed.
RECURSIVE ScanBids_emptyOnly(_, _, _, _)
ScanBids_emptyOnly(ob, pu, qu, i) ==
    IF i >= Min(BOOK_DEPTH, SCAN_WINDOW) THEN ob
    ELSE LET current_price == ob.bids[i].price
         IN  IF qu = 0 /\ current_price = pu THEN update_bid(ob, i, 0, 0)
             ELSE IF current_price = 0 THEN update_bid(ob, i, pu, qu)
             ELSE IF current_price = pu THEN update_bid(ob, i, pu, qu)
             ELSE ScanBids_emptyOnly(ob, pu, qu, i + 1)

\* The scan of the bid side for one change (pu, qu): lines 84-99.
RECURSIVE ScanBids(_, _, _, _)
ScanBids(ob, pu, qu, i) ==
    IF i >= Min(BOOK_DEPTH, SCAN_WINDOW) THEN ob
    ELSE LET current_price == ob.bids[i].price
         IN  IF qu = 0 /\ current_price = pu THEN update_bid(ob, i, 0, 0)
             ELSE IF current_price = 0 \/ pu > current_price
                  THEN update_bid(ob, i, pu, qu)
             ELSE IF current_price = pu THEN update_bid(ob, i, pu, qu)
             ELSE ScanBids(ob, pu, qu, i + 1)

\* The ask scan without the break after a slot is written.
RECURSIVE ScanAsks_noBreak(_, _, _, _)
ScanAsks_noBreak(ob, pu, qu, i) ==
    IF i >= Min(BOOK_DEPTH, SCAN_WINDOW) THEN ob
    ELSE LET current_price == ob.asks[i].price
         IN  IF qu = 0 /\ current_price = pu
             THEN ScanAsks_noBreak(update_ask(ob, i, 0, 0), pu, qu, i + 1)
             ELSE IF current_price = 0 \/ (current_price > pu /\ pu > 0)
                  THEN ScanAsks_noBreak(update_ask(ob, i, pu, qu), pu, qu, i + 1)
             ELSE IF current_price = pu
                  THEN ScanAsks_noBreak(update_ask(ob, i, pu, qu), pu, qu, i + 1)
             ELSE ScanAsks_noBreak(ob, pu, qu, i + 1)

\* The scan of the ask side for one change (pu, qu): lines 102-117.
RECURSIVE ScanAsks(_, _, _, _)
ScanAsks(ob, pu, qu, i) ==
    IF i >= Min(BOOK_DEPTH, SCAN_WINDOW) THEN ob
    ELSE LET current_price == ob.asks[i].price
         IN  IF qu = 0 /\ current_price = pu THEN update_ask(ob, i, 0, 0)
             ELSE IF current_price = 0 \/ (current_price > pu /\ pu > 0)
                  THEN update_ask(ob, i, pu, qu)
             ELSE IF current_price = pu THEN update_ask(ob, i, pu, qu)
             ELSE ScanAsks(ob, pu, qu, i + 1)

\* The three Options of one change triple are all Some (lines 73-77).
ChangeParses(ch) ==
    /\ IsStr(GetIdx(ch, 0))
    /\ ParsesF64(GetIdx(ch, 1))
    /\ ParsesF64(GetIdx(ch, 2))

Buy == <<"b", "u", "y">>

\* One iteration of  for ch in changes.iter()  (lines 72-120).
ApplyChange(ob, ch) ==
    IF ChangeParses(ch)
    THEN LET side == GetIdx(ch, 0).s
             pu   == ToMicros(GetIdx(ch, 1))
             qu   == ToMicros(GetIdx(ch, 2))
         IN  IF eq_ignore_ascii_case(side, Buy)
             THEN ScanBids(ob, pu, qu, 0)
             ELSE ScanAsks(ob, pu, qu, 0)
    ELSE ob

RECURSIVE ApplyChanges(_, _)
ApplyChanges(ob, chs) ==
    IF chs = << >> THEN ob
    ELSE ApplyChanges(ApplyChange(ob, Head(chs)), Tail(chs))

\* Lines 54-61, 62-69 and 71-124: the three branches, each with its set_ts.
BidsBranch(ob, v) ==
    IF IsArray(GetKey(v, "bids"))
    THEN StoreTs(SnapshotBids(ob, GetKey(v, "bids").a), v)
    ELSE ob

AsksBranch(ob, v) ==
    IF IsArray(GetKey(v, "asks"))
    THEN StoreTs(SnapshotAsks(ob, GetKey(v, "asks").a), v)
    ELSE ob

ChangesBranch(ob, v) ==
    IF IsArray(GetKey(v, "changes"))
    THEN StoreTs(ApplyChanges(ob, GetKey(v, "changes").a), v)
    ELSE ob

\* Lines 51-126: the body of the read loop for one item of the stream.
\* msg.k is "text" for Ok(Message::Text); msg.v is the parsed text, of type
\* "invalid" when serde_json::from_str fails.
HandleDepthMsg(ob, msg) ==
    IF msg.k = "text" /\ msg.v.t # "invalid"
    THEN ChangesBranch(AsksBranch(BidsBranch(ob, msg.v), msg.v), msg.v)
    ELSE ob

(***************************************************************************)
(* top_task: what one received item does to the TopOfBook, and the         *)
(* TradeEvents it builds and hands to the message bus.                     *)
(***************************************************************************)
\* cfg(feature = ...) of the build: which publish block is compiled in.
Features == {"none", "kafka", "pulsar"}

\* What the message bus does when one trade is published.
PublishOutcomes(feature) ==
    CASE feature = "kafka"  -> {"ok", "send_failed", "client_failed"}
      [] feature = "pulsar" -> {"ok", "send_failed", "client_failed", "producer_failed"}
      [] OTHER              -> {"ok"}

\* .expect("producer") / .expect("pulsar client") / .expect("pulsar producer")
PublishPanics(feature, outcome) ==
    \/ feature = "kafka" /\ outcome = "client_failed"
    \/ feature = "pulsar" /\ outcome \in {"client_failed", "producer_failed"}

\* producer.send(...) is reached with the event's payload.
PublishSends(feature, outcome) ==
    feature \in {"kafka", "pulsar"} /\ ~PublishPanics(feature, outcome)

\* .as_str().unwrap_or("")
StrOrEmpty(x) == IF IsStr(x) THEN x.s ELSE << >>

Bid == <<"b", "i", "d">>

Ask == <<"a", "s", "k">>

Change == <<"c", "h", "a", "n", "g", "e">>

Trade == <<"t", "r", "a", "d", "e">>

SOLUSD == <<"S", "O", "L", "U", "S", "D">>

\* Line 170.
TradeEvent(ts, e) ==
    [ts_ms   |-> ts,
     symbol  |-> SOLUSD,
     price_u |-> ToMicrosOrZero(GetKey(e, "price")),
     qty_u   |-> ToMicrosOrZero(GetKey(e, "amount")),
     side    |-> StrOrEmpty(GetKey(e, "makerSide"))]

\* The change branch with the sides crossed.
ChangeEvent_crossed(tob, ts, e) ==
    LET side  == StrOrEmpty(GetKey(e, "side"))
        price == ToMicrosOrZero(GetKey(e, "price"))
        rem   == ToMicrosOrZero(GetKey(e, "remaining"))
        t1    == IF side = Bid THEN set_ask(tob, price, rem) ELSE tob
        t2    == IF side = Ask THEN set_bid(t1, price, rem) ELSE t1
    IN  set_ts(t2, ts)

\* Lines 159-164.
ChangeEvent(tob, ts, e) ==
    LET side  == StrOrEmpty(GetKey(e, "side"))
        price == ToMicrosOrZero(GetKey(e, "price"))
        rem   == ToMicrosOrZero(GetKey(e, "remaining"))
        t1    == IF side = Bid THEN set_bid(tob, price, rem) ELSE tob
        t2    == IF side = Ask THEN set_ask(t1, price, rem) ELSE t1
    IN  set_ts(t2, ts)

\* The event loop with a trade branch that also stamps the store.
TopEvent_tradeStamps(st, ts, e, feature, oc) ==
    IF st.panicked \/ ~IsStr(GetKey(e, "type")) THEN st
    ELSE IF GetKey(e, "type").s = Change
         THEN [st EXCEPT !.top = ChangeEvent(st.top, ts, e)]
    ELSE IF GetKey(e, "type").s = Trade
         THEN LET tr == TradeEvent(ts, e)
                  n  == Len(st.trades) + 1
              IN  [st EXCEPT !.top = set_ts(st.top, ts),
                             !.trades = Append(@, tr),
                             !.handed = IF PublishSends(feature, oc[n])
                                        THEN Append(@, tr) ELSE @,
                             !.panicked = PublishPanics(feature, oc[n])]
    ELSE st

\* One iteration of  for e in events  (lines 155-210).  st carries the
\* store, the TradeEvents built (trades), the payloads given to
\* producer.send (handed), and whether the task has panicked.  oc[n] is what
\* the bus does for the n-th trade of the frame.
TopEvent(st, ts, e, feature, oc) ==
    IF st.panicked \/ ~IsStr(GetKey(e, "type")) THEN st
    ELSE IF GetKey(e, "type").s = Change
         THEN [st EXCEPT !.top = ChangeEvent(st.top, ts, e)]
    ELSE IF GetKey(e, "type").s = Trade
         THEN LET tr == TradeEvent(ts, e)
                  n  == Len(st.trades) + 1
              IN  [st EXCEPT !.trades = Append(@, tr),
                             !.handed = IF PublishSends(feature, oc[n])
                                        THEN Append(@, tr) ELSE @,
                             !.panicked = PublishPanics(feature, oc[n])]
    ELSE st

RECURSIVE TopEvents(_, _, _, _, _)
TopEvents(st, ts, evs, feature, oc) ==
    IF evs = << >> THEN st
    ELSE TopEvents(TopEvent(st, ts, Head(evs), feature, oc), ts, Tail(evs),
                   feature, oc)

\* Lines 150-218: the body of the read loop for one item of the stream.
HandleTopMsg(tob, msg, feature, oc) ==
    LET st0 == [top |-> tob, trades |-> << >>, handed |-> << >>, panicked |-> FALSE]
    IN  IF msg.k = "text" /\ msg.v.t # "invalid" /\ IsArray(GetKey(msg.v, "events"))
        THEN LET ts == IF IsU64(GetKey(msg.v, "timestampms"))
                       THEN GetKey(msg.v, "timestampms").n ELSE 0
             IN  TopEvents(st0, ts, GetKey(msg.v, "events").a, feature, oc)
        ELSE st0

(***************************************************************************)
(* The feed: the items the two websocket streams can deliver.              *)
(***************************************************************************)
Sell == <<"s", "e", "l", "l">>

JObj(f) == [t |-> "obj", f |-> f]

JInvalid == [t |-> "invalid"]

Text(v) == [k |-> "text", v |-> v]

\* The subscription request of ob_task (lines 43-46) and the Pong of
\* top_task (line 215), as handed to write.send.
SubscribeL2 ==
    Text(JObj([type |-> JStr(<<"s", "u", "b", "s", "c", "r", "i", "b", "e">>),
               subscriptions |->
                   JArr(<<JObj([name |-> JStr(<<"l", "2">>),
                                symbols |-> JArr(<<JStr(SOLUSD)>>)])>>)]))

Pong == [k |-> "pong", v |-> JAbsent]

\* Ok(Message::Ping), any other Ok(Message), and Err(e).
Ping == [k |-> "ping", v |-> JAbsent]

OtherMsg == [k |-> "other", v |-> JAbsent]

ErrItem == [k |-> "err", v |-> JAbsent]

\* Value of the message variables before any item was received.
NoMsg == [k |-> "none", v |-> JAbsent]

Level(p, q) == JArr(<<JStr(p), JStr(q)>>)

Chg(side, p, q) == JArr(<<JStr(side), JStr(p), JStr(q)>>)

\* A list longer than the book: MaxLevels entries at one price, the
\* quantities alternating.
MaxLevels == 51

\* The Pongs followed on one connection of top_task.
MaxPongs == 2

LongList == [i \in 1..MaxLevels |-> Level(sMid, IF i % 2 = 1 THEN sQty ELSE sQty2)]

\* Well-formed snapshots: every entry a pair of decimal strings.
SnapshotFrames ==
    { Text(JObj([bids |-> JArr(<<Level(sHi, sQty), Level(sLo, sQty)>>),
                 asks |-> JArr(<<Level(sLo, sQty), Level(sHi, sQty)>>),
                 timestampms |-> JNum(1)])),
      Text(JObj([bids |-> JArr(<<Level(sLo, sQty)>>), timestampms |-> JNum(2)])),
      Text(JObj([asks |-> JArr(<<Level(sHi, sQty)>>)])),
      Text(JObj([bids |-> JArr(LongList), asks |-> JArr(LongList),
                 timestampms |-> JNum(1)])),
      Text(JObj([bids |-> JArr(<< >>), asks |-> JArr(<< >>), timestampms |-> JNum(2)])) }

\* Well-formed incremental updates: triples (side, price, quantity).
ChangeFrames ==
    { Text(JObj([changes |-> JArr(<<Chg(sd, p, q)>>), timestampms |-> JNum(2)])) :
        sd \in {Buy, Sell}, p \in {sLo, sHi}, q \in {sQty, sZero} }
    \cup
    { Text(JObj([changes |-> JArr(<<Chg(<<"B", "U", "Y">>, sLo, sQty)>>)])),
      Text(JObj([changes |-> JArr(<<Chg(Buy, sHi, sQty), Chg(Sell, sLo, sQty)>>),
                 timestampms |-> JNum(1)])) }

\* Frames that carry a timestamp and no list, or nothing at all.
BareFrames ==
    { Text(JObj([type |-> JStr(<<"h", "b">>), timestampms |-> JNum(2)])),
      Text(JObj([type |-> JStr(<<"h", "b">>)])) }

\* Malformed and schema-mismatched frames.
MalformedFrames ==
    { Text(JInvalid),
      Text(JObj([bids |-> JArr(<<Level(sBad, sZero)>>)])),
      Text(JObj([asks |-> JArr(<<JArr(<<JStr(sHi)>>)>>)])),
      Text(JObj([bids |-> JArr(<<JArr(<<JNum(4), JStr(sZero)>>)>>)])),
      Text(JObj([bids |-> JStr(sBad), timestampms |-> JNum(2)])),
      Text(JObj([changes |-> JArr(<<Chg(Buy, sBad, sQty)>>)])),
      Text(JObj([changes |-> JArr(<<Chg(Buy, sBad, sQty)>>), timestampms |-> JNum(1)])),
      Text(JObj([changes |-> JArr(<<Chg(Bid, sLo, sQty)>>)])) }

DepthFrames ==
    SnapshotFrames \cup ChangeFrames \cup BareFrames \cup MalformedFrames
        \cup {Ping, OtherMsg, ErrItem}

EvChange(side, p, r) ==
    JObj([type |-> JStr(Change), side |-> JStr(side), price |-> JStr(p),
          remaining |-> JStr(r)])

EvTrade(p, a, maker) ==
    JObj([type |-> JStr(Trade), price |-> JStr(p), amount |-> JStr(a),
          makerSide |-> JStr(maker)])

EvOther == JObj([type |-> JStr(<<"a", "u", "c", "t", "i", "o", "n">>)])

Envelope(ts, evs) == Text(JObj([timestampms |-> JNum(ts), events |-> JArr(evs)]))

TopFrames ==
    { Envelope(3, <<EvChange(Bid, sHi, sQty)>>),
      Envelope(4, <<EvChange(Ask, sHi, sQty2)>>),
      Envelope(3, <<EvChange(Bid, sLo, sQty), EvChange(Ask, sMid, sZero)>>),
      Envelope(4, <<EvChange(Bid, sMid, sQty), EvChange(Bid, sLo, sQty2)>>),
      Envelope(3, <<EvTrade(sHi, sQty, Ask)>>),
      Envelope(4, <<EvTrade(sLo, sQty2, Bid), EvTrade(sMid, sQty, Ask)>>),
      Envelope(4, <<EvTrade(sLo, sQty, Bid), EvChange(Ask, sLo, sQty)>>),
      Envelope(3, <<EvChange(Bid, sMid, sQty2), EvTrade(sMid, sQty, Bid), EvOther>>),
      Envelope(4, <<EvOther>>),
      Envelope(3, <<EvChange(Sell, sLo, sQty)>>),
      Text(JObj([events |-> JArr(<<EvChange(Ask, sLo, sQty2)>>)])),
      Text(JObj([timestampms |-> JNum(4), events |-> JStr(sBad)])),
      Text(JInvalid), Ping, OtherMsg, ErrItem }

\* The frames used where both tasks and the clock run together.
CoreDepthFrames ==
    { Text(JObj([bids |-> JArr(<<Level(sLo, sQty)>>), timestampms |-> JNum(2)])),
      Text(JObj([changes |-> JArr(<<Chg(Buy, sHi, sQty)>>), timestampms |-> JNum(2)])),
      ErrItem }

CoreTopFrames ==
    { Envelope(3, <<EvChange(Bid, sHi, sQty)>>),
      Envelope(3, <<EvTrade(sHi, sQty, Ask)>>),
      Ping, ErrItem }

\* The trades of a frame, counted as TopEvent counts them.
NumTrades(msg) ==
    IF msg.k = "text" /\ msg.v.t # "invalid" /\ IsArray(GetKey(msg.v, "events"))
    THEN Cardinality({i \in 1..Len(GetKey(msg.v, "events").a) :
            LET ty == GetKey(GetKey(msg.v, "events").a[i], "type")
            IN  IsStr(ty) /\ ty.s = Trade})
    ELSE 0

(***************************************************************************)
(* State.                                                                  *)
(*   order_book, top   the two memory-mapped stores                        *)
(*   ob_pc, top_pc     where each task is: "connecting" (connect_async in  *)
(*                     flight), "connected" (in the read loop), "sleeping" *)
(*                     (the 5 s sleep), "panicked" (task ended by a panic) *)
(*   ob_sleep, top_sleep  seconds left of the task's sleep                 *)
(*   feature           the cargo feature of the build                      *)
(* History of the run, written but never read by the tasks:                *)
(*   ob_msg, top_msg       the last item each read loop handled            *)
(*   ob_before, top_before the store just before that item                 *)
(*   ob_repeat             the item before ob_msg was the same item        *)
(*   trades, handed        the TradeEvents built / given to producer.send  *)
(*                         while handling top_msg                          *)
(*   ob_gap, top_gap       seconds between the end of the task's last      *)
(*                         stream and the start of the connect_async that  *)
(*                         followed it (-1: no stream has ended)           *)
(* Startup (main, lines 19-34):                                            *)
(*   main_pc           where main is: "start", "ob_mapped", "tob_mapped",  *)
(*                     "ob_spawned", "joined" (in tokio::join!), "failed"  *)
(*                     (main returned the Err of a mapping)                *)
(*   ob_file, tob_file the two backing files as main found them and, once  *)
(*                     mmap was called, as that call left them; from then  *)
(*                     on order_book / top are the file's content          *)
(*   ob_bind, tob_bind the Result of each mmap call ("none": not called)   *)
(* One OrderLevel of a mapped book at the granularity of its fields:       *)
(*   level             the level in shared memory                          *)
(*   writer            the update_bid / update_ask in progress             *)
(*   written           the (price, quantity) pairs updates have written    *)
(*   reader            a reader process: its position and what it loaded   *)
(* The conversion on its own:                                              *)
(*   conv_in, conv_out a decimal string of the feed and its conversion     *)
(*                     (-1: not converted yet)                             *)
(* What the tasks send:                                                    *)
(*   ob_out, top_out   the messages each task has handed to write.send on  *)
(*                     the connection it has (or had last), in order       *)
(* One frame of the depth feed at the granularity of its store calls:      *)
(*   steps             the update_bid / update_ask / set_ts calls of the   *)
(*                     frame in process that are still to come             *)
(*   stamped           a set_ts of the frame in process has been executed  *)
(* History of a run of incremental changes:                                *)
(*   hist              n: the changes handled so far; bids, asks: for each *)
(*                     slot the number of the change that last changed its *)
(*                     price (0: none did); inserts: every change so far   *)
(*                     carried a non-zero price and a non-zero quantity    *)
(***************************************************************************)
VARIABLES order_book, top, ob_pc, top_pc, ob_sleep, top_sleep, feature,
          ob_msg, ob_before, ob_repeat, top_msg, top_before, trades, handed,
          ob_gap, top_gap,
          main_pc, ob_file, tob_file, ob_bind, tob_bind,
          level, writer, written, reader,
          conv_in, conv_out,
          ob_out, top_out,
          steps, stamped,
          hist

obVars == <<order_book, ob_pc, ob_sleep, ob_msg, ob_before, ob_repeat, ob_gap>>

topVars == <<top, top_pc, top_sleep, top_msg, top_before, trades, handed, top_gap>>

mainVars == <<main_pc, ob_file, tob_file, ob_bind, tob_bind>>

raceVars == <<level, writer, written, reader>>

convVars == <<conv_in, conv_out>>

wireVars == <<ob_out, top_out>>

frameVars == <<steps, stamped>>

\* What the two feed tasks neither read nor write.
envVars == <<mainVars, raceVars, convVars, frameVars, hist>>

vars == <<obVars, topVars, feature, envVars, wireVars>>

\* Nothing sent, no frame in process.
WireIdle == ob_out = << >> /\ top_out = << >>

FrameIdle == steps = << >> /\ stamped = FALSE

NoHist ==
    [n |-> 0, bids |-> [i \in Slots |-> 0], asks |-> [i \in Slots |-> 0],
     inserts |-> TRUE]

\* No update and no read of the level in progress.
WriterIdle == [pc |-> "idle", update |-> OrderLevel(0, 0)]

ReaderStart == [pc |-> "start", price |-> -1, qty |-> -1]

RaceIdle ==
    /\ level = OrderLevel(0, 0)
    /\ writer = WriterIdle
    /\ written = {}
    /\ reader = ReaderStart

ConvIdle == conv_in = << >> /\ conv_out = -1

\* main after a startup on a directory without files: both files created.
StartupDone ==
    /\ main_pc = "joined"
    /\ ob_file = FileAfterMmap(NoFile, OB_WORDS, "ok")
    /\ tob_file = FileAfterMmap(NoFile, TOB_WORDS, "ok")
    /\ ob_bind = "ok"
    /\ tob_bind = "ok"

\* main, lines 23-24 and 34/139: both files freshly created, both tasks
\* spawned and in their first connect_async.
Init ==
    /\ StartupDone
    /\ RaceIdle
    /\ ConvIdle
    /\ WireIdle
    /\ FrameIdle
    /\ hist = NoHist
    /\ order_book = ZeroBook
    /\ top = ZeroTop
    /\ ob_pc = "connecting"
    /\ top_pc = "connecting"
    /\ ob_sleep = 0
    /\ top_sleep = 0
    /\ feature \in Features
    /\ ob_msg = NoMsg
    /\ ob_before = ZeroBook
    /\ ob_repeat = FALSE
    /\ top_msg = NoMsg
    /\ top_before = ZeroTop
    /\ trades = << >>
    /\ handed = << >>
    /\ ob_gap = -1
    /\ top_gap = -1

\* One second passes: every running sleep has one second less to go.
Tick ==
    /\ ob_sleep > 0 \/ top_sleep > 0
    /\ ob_sleep' = IF ob_sleep > 0 THEN ob_sleep - 1 ELSE 0
    /\ top_sleep' = IF top_sleep > 0 THEN top_sleep - 1 ELSE 0
    /\ UNCHANGED <<order_book, ob_pc, ob_msg, ob_before, ob_repeat, ob_gap,
                   top, top_pc, top_msg, top_before, trades, handed, top_gap,
                   feature, envVars,
                   wireVars>>

(***************************************************************************)
(* ob_task (lines 34-136).                                                 *)
(***************************************************************************)
\* A connect that starts from an empty book.
ObConnectOk_resets ==
    /\ ob_pc = "connecting"
    /\ ob_pc' = "connected"
    /\ order_book' = ZeroBook
    /\ ob_out' = <<SubscribeL2>>
    /\ UNCHANGED <<ob_sleep, ob_msg, ob_before, ob_repeat, ob_gap,
                   topVars, feature, envVars, top_out>>

\* connect_async returns Ok: ws.split() gives the connection's write half,
\* the task sends the subscription on it (the result of send is dropped) and
\* enters the read loop.
ObConnectOk ==
    /\ ob_pc = "connecting"
    /\ ob_pc' = "connected"
    /\ ob_out' = <<SubscribeL2>>
    /\ UNCHANGED <<order_book, ob_sleep, ob_msg, ob_before, ob_repeat, ob_gap,
                   topVars, feature, envVars, top_out>>

\* connect_async returns Err: sleep 5 seconds (lines 129-133).
ObConnectErr ==
    /\ ob_pc = "connecting"
    /\ ob_pc' = "sleeping"
    /\ ob_sleep' = RETRY_SECS
    /\ UNCHANGED <<order_book, ob_msg, ob_before, ob_repeat, ob_gap,
                   topVars, feature, envVars,
                   wireVars>>

\* The sleep is over: the loop starts the next connect_async.
ObWake ==
    /\ ob_pc = "sleeping"
    /\ ob_sleep = 0
    /\ ob_pc' = "connecting"
    /\ UNCHANGED <<order_book, ob_sleep, ob_msg, ob_before, ob_repeat, ob_gap,
                   topVars, feature, envVars,
                   wireVars>>

\* read.next() yields Some(msg): lines 50-127.
ObRecv(msg) ==
    /\ ob_pc = "connected"
    /\ order_book' = HandleDepthMsg(order_book, msg)
    /\ ob_msg' = msg
    /\ ob_before' = order_book
    /\ ob_repeat' = (msg = ob_msg)
    /\ UNCHANGED <<ob_pc, ob_sleep, ob_gap, topVars, feature, envVars,
                   wireVars>>

\* Seconds the task waits between the end of a stream and the next
\* connect_async: the while-let ends, the Ok arm ends, the loop iterates
\* (lines 127-128, 134-135, 35-38); there is no sleep on this path.
StreamEndDelay == 0

\* read.next() yields None: the task leaves the read loop and, after the
\* delay of that path, is in the next connect_async.
ObStreamEnd ==
    /\ ob_pc = "connected"
    /\ ob_pc' = "connecting"
    /\ ob_gap' = StreamEndDelay
    /\ UNCHANGED <<order_book, ob_sleep, ob_msg, ob_before, ob_repeat,
                   topVars, feature, envVars,
                   wireVars>>

(***************************************************************************)
(* top_task (lines 139-228).                                               *)
(***************************************************************************)
\* A top_task that subscribes as ob_task does.
TopConnectOk_subscribes ==
    /\ top_pc = "connecting"
    /\ top_pc' = "connected"
    /\ top_out' = <<SubscribeL2>>
    /\ UNCHANGED <<top, top_sleep, top_msg, top_before, trades, handed,
                   top_gap, obVars, feature, envVars, ob_out>>

\* connect_async returns Ok: ws.split(), nothing is sent, the read loop
\* starts (lines 144-149).
TopConnectOk ==
    /\ top_pc = "connecting"
    /\ top_pc' = "connected"
    /\ top_out' = << >>
    /\ UNCHANGED <<top, top_sleep, top_msg, top_before, trades, handed,
                   top_gap, obVars, feature, envVars, ob_out>>

\* Lines 221-225.
TopConnectErr ==
    /\ top_pc = "connecting"
    /\ top_pc' = "sleeping"
    /\ top_sleep' = RETRY_SECS
    /\ UNCHANGED <<top, top_msg, top_before, trades, handed, top_gap,
                   obVars, feature, envVars,
                   wireVars>>

TopWake ==
    /\ top_pc = "sleeping"
    /\ top_sleep = 0
    /\ top_pc' = "connecting"
    /\ UNCHANGED <<top, top_sleep, top_msg, top_before, trades, handed,
                   top_gap, obVars, feature, envVars,
                   wireVars>>

\* The top-of-book read loop stamping the depth task's store as well.
TopRecv_stampsBook(msg, oc) ==
    /\ top_pc = "connected"
    /\ msg.k = "ping" => Len(top_out) < MaxPongs
    /\ LET st == HandleTopMsg(top, msg, feature, oc)
       IN  /\ top' = st.top
           /\ trades' = st.trades
           /\ handed' = st.handed
           /\ top_pc' = IF st.panicked THEN "panicked" ELSE "connected"
    /\ top_msg' = msg
    /\ top_before' = top
    /\ order_book' = StoreTs(order_book, msg.v)
    /\ top_out' = IF msg.k = "ping" THEN Append(top_out, Pong) ELSE top_out
    /\ UNCHANGED <<top_sleep, top_gap, ob_pc, ob_sleep, ob_msg, ob_before,
                   ob_repeat, ob_gap, feature, envVars, ob_out>>

\* read.next() yields Some(msg): lines 149-219.  oc is what the message bus
\* does for each trade of the frame.  A Ping is answered by a Pong (lines
\* 214-216); the run is cut after MaxPongs of them on one connection.
TopRecv(msg, oc) ==
    /\ top_pc = "connected"
    /\ msg.k = "ping" => Len(top_out) < MaxPongs
    /\ LET st == HandleTopMsg(top, msg, feature, oc)
       IN  /\ top' = st.top
           /\ trades' = st.trades
           /\ handed' = st.handed
           /\ top_pc' = IF st.panicked THEN "panicked" ELSE "connected"
    /\ top_msg' = msg
    /\ top_before' = top
    /\ top_out' = IF msg.k = "ping" THEN Append(top_out, Pong) ELSE top_out
    /\ UNCHANGED <<top_sleep, top_gap, obVars, feature, envVars, ob_out>>

\* read.next() yields None (lines 149, 219-220, 140-143).
TopStreamEnd ==
    /\ top_pc = "connected"
    /\ top_pc' = "connecting"
    /\ top_gap' = StreamEndDelay
    /\ UNCHANGED <<top, top_sleep, top_msg, top_before, trades, handed,
                   obVars, feature, envVars,
                   wireVars>>

ObRecvAny(frames) == \E msg \in frames : ObRecv(msg)

TopRecvAny(frames) ==
    \E msg \in frames :
        \E oc \in [1..NumTrades(msg) -> PublishOutcomes(feature)] :
            TopRecv(msg, oc)

(***************************************************************************)
(* The whole process: both tasks and the clock.                            *)
(***************************************************************************)
Next ==
    \/ Tick
    \/ ObConnectOk
    \/ ObConnectErr
    \/ ObWake
    \/ ObRecvAny(CoreDepthFrames)
    \/ ObStreamEnd
    \/ TopConnectOk
    \/ TopConnectErr
    \/ TopWake
    \/ TopRecvAny(CoreTopFrames)
    \/ TopStreamEnd

Spec == Init /\ [][Next]_vars

(***************************************************************************)
(* The depth task alone, on one connection and on its full feed.  The      *)
(* steps left out (the clock, the reconnect path, top_task) leave          *)
(* order_book unchanged.                                                   *)
(***************************************************************************)
NextBook ==
    \/ ObConnectOk
    \/ ObRecvAny(DepthFrames)

InitBook == Init /\ feature = "none"

SpecBook == InitBook /\ [][NextBook]_vars

(***************************************************************************)
(* The depth task on a feed of incremental changes only, from the empty    *)
(* book, with the history of which change last set each slot's price.      *)
(***************************************************************************)
\* The changes followed in one run.
MaxChanges == 4

\* One triple per frame: either side, three prices and the price "0", a
\* quantity or the quantity "0".
IncrFrames ==
    { Text(JObj([changes |-> JArr(<<Chg(sd, p, q)>>), timestampms |-> JNum(2)])) :
        sd \in {Buy, Sell}, p \in {sLo, sMid, sHi}, q \in {sQty, sZero} }
    \cup
    { Text(JObj([changes |-> JArr(<<Chg(sd, sZero, sQty)>>), timestampms |-> JNum(2)])) :
        sd \in {Buy, Sell} }

\* The history after a frame took the book from ob to ob2.
Touch(h, ob, ob2, msg) ==
    LET ch == GetKey(msg.v, "changes").a[1]
    IN  [n |-> h.n + 1,
         bids |-> [i \in Slots |->
                    IF ob2.bids[i].price # ob.bids[i].price THEN h.n + 1 ELSE h.bids[i]],
         asks |-> [i \in Slots |->
                    IF ob2.asks[i].price # ob.asks[i].price THEN h.n + 1 ELSE h.asks[i]],
         inserts |-> /\ h.inserts
                     /\ ToMicros(GetIdx(ch, 1)) # 0
                     /\ ToMicros(GetIdx(ch, 2)) # 0]

\* read.next() yields a frame of changes: lines 50-127, as ObRecv.
ObRecvChange(msg) ==
    /\ ob_pc = "connected"
    /\ hist.n < MaxChanges
    /\ order_book' = HandleDepthMsg(order_book, msg)
    /\ ob_msg' = msg
    /\ ob_before' = order_book
    /\ ob_repeat' = (msg = ob_msg)
    /\ hist' = Touch(hist, order_book, order_book', msg)
    /\ UNCHANGED <<ob_pc, ob_sleep, ob_gap, topVars, feature, mainVars,
                   raceVars, convVars, frameVars, wireVars>>

NextChanges ==
    \/ ObConnectOk
    \/ \E msg \in IncrFrames : ObRecvChange(msg)

SpecChanges == InitBook /\ [][NextChanges]_vars

(***************************************************************************)
(* The depth task at the granularity of its store calls: a frame is taken  *)
(* from the stream, then its update_bid, update_ask and set_ts calls run   *)
(* one at a time, in the order of the code, and a reader of the mapped     *)
(* file can look at the book between any two of them.                      *)
(***************************************************************************)
\* if let Some(ts) = v.get("timestampms").and_then(|t| t.as_u64()) { set_ts }
TsStep(v) ==
    IF IsU64(GetKey(v, "timestampms"))
    THEN <<[op |-> "ts", ts |-> GetKey(v, "timestampms").n]>>
    ELSE << >>

\* The calls one frame makes, in program order: lines 54-61 (the bids loop,
\* then set_ts), 62-69 (the asks loop, then set_ts), 71-124 (one scan per
\* change, then set_ts).
FrameSteps(msg) ==
    IF msg.k = "text" /\ msg.v.t # "invalid"
    THEN LET v == msg.v
             bids == GetKey(v, "bids")
             asks == GetKey(v, "asks")
             changes == GetKey(v, "changes")
         IN  (IF IsArray(bids)
              THEN [k \in 1..Min(Len(bids.a), BOOK_DEPTH) |->
                       [op |-> "bid", i |-> k - 1, lvl |-> bids.a[k]]] \o TsStep(v)
              ELSE << >>)
             \o
             (IF IsArray(asks)
              THEN [k \in 1..Min(Len(asks.a), BOOK_DEPTH) |->
                       [op |-> "ask", i |-> k - 1, lvl |-> asks.a[k]]] \o TsStep(v)
              ELSE << >>)
             \o
             (IF IsArray(changes)
              THEN [k \in 1..Len(changes.a) |-> [op |-> "change", ch |-> changes.a[k]]]
                       \o TsStep(v)
              ELSE << >>)
    ELSE << >>

\* One call on the book.
ExecStep(ob, st) ==
    CASE st.op = "bid" ->
            update_bid(ob, st.i, ToMicrosOrZero(GetIdx(st.lvl, 0)),
                                 ToMicrosOrZero(GetIdx(st.lvl, 1)))
      [] st.op = "ask" ->
            update_ask(ob, st.i, ToMicrosOrZero(GetIdx(st.lvl, 0)),
                                 ToMicrosOrZero(GetIdx(st.lvl, 1)))
      [] st.op = "change" -> ApplyChange(ob, st.ch)
      [] st.op = "ts" -> set_ts(ob, st.ts)

\* A step that writes slots of the book.
SlotStep(st) == st.op \in {"bid", "ask", "change"}

StepFrames ==
    { Text(JObj([bids |-> JArr(<<Level(sHi, sQty), Level(sLo, sQty)>>),
                 asks |-> JArr(<<Level(sLo, sQty), Level(sHi, sQty)>>),
                 timestampms |-> JNum(1)])),
      Text(JObj([bids |-> JArr(<<Level(sLo, sQty)>>), timestampms |-> JNum(2)])),
      Text(JObj([changes |-> JArr(<<Chg(Buy, sHi, sQty), Chg(Sell, sLo, sQty)>>),
                 timestampms |-> JNum(1)])),
      Text(JObj([changes |-> JArr(<<Chg(Buy, sLo, sZero)>>), timestampms |-> JNum(2)])),
      Text(JObj([type |-> JStr(<<"h", "b">>), timestampms |-> JNum(2)])),
      ErrItem }

\* read.next() yields Some(msg): the frame's calls are ahead (lines 50-53).
FrameBegin(msg) ==
    /\ ob_pc = "connected"
    /\ steps = << >>
    /\ steps' = FrameSteps(msg)
    /\ stamped' = FALSE
    /\ ob_msg' = msg
    /\ ob_before' = order_book
    /\ ob_repeat' = (msg = ob_msg)
    /\ UNCHANGED <<order_book, ob_pc, ob_sleep, ob_gap, topVars, feature,
                   mainVars, raceVars, convVars, hist, wireVars>>

\* The next call of the frame in process.
FrameStep ==
    /\ steps # << >>
    /\ order_book' = ExecStep(order_book, Head(steps))
    /\ steps' = Tail(steps)
    /\ stamped' = (stamped \/ Head(steps).op = "ts")
    /\ UNCHANGED <<ob_pc, ob_sleep, ob_msg, ob_before, ob_repeat, ob_gap,
                   topVars, feature, mainVars, raceVars, convVars, hist,
                   wireVars>>

NextSteps ==
    \/ ObConnectOk
    \/ \E msg \in StepFrames : FrameBegin(msg)
    \/ FrameStep

SpecSteps == InitBook /\ [][NextSteps]_vars

(***************************************************************************)
(* The top-of-book task alone, on one connection and on its full feed.     *)
(***************************************************************************)
NextTop ==
    \/ TopConnectOk
    \/ TopRecvAny(TopFrames)

SpecTop == Init /\ [][NextTop]_vars

(***************************************************************************)
(* Startup: main maps the two stores, then spawns the two tasks (lines     *)
(* 19-34, 139, 230).  The files main can find: none, the image a previous  *)
(* instance left, a shorter file, a longer file.                           *)
(***************************************************************************)
\* What a previous instance of the process had written when it stopped.
PriorBook ==
    HandleDepthMsg(ZeroBook,
        Text(JObj([bids |-> JArr(<<Level(sHi, sQty), Level(sLo, sQty2)>>),
                   asks |-> JArr(<<Level(sHi, sQty2)>>),
                   timestampms |-> JNum(4)])))

PriorTop ==
    HandleTopMsg(ZeroTop, Envelope(4, <<EvChange(Ask, sMid, sQty2)>>), "none", << >>).top

FileOf(words) == [exists |-> TRUE, words |-> words]

ObStartFiles ==
    { NoFile,
      FileOf(WordsOfBook(PriorBook)),
      FileOf(<<7, 7, 7>>),
      FileOf(WordsOfBook(PriorBook) \o <<7>>) }

TobStartFiles ==
    { NoFile,
      FileOf(WordsOfTop(PriorTop)),
      FileOf(<<7, 7, 7>>),
      FileOf(WordsOfTop(PriorTop) \o <<7>>) }

InitStart ==
    /\ main_pc = "start"
    /\ ob_file \in ObStartFiles
    /\ tob_file \in TobStartFiles
    /\ ob_bind = "none"
    /\ tob_bind = "none"
    /\ order_book = NoBook
    /\ top = NoTop
    /\ ob_pc = "unspawned"
    /\ top_pc = "unspawned"
    /\ ob_sleep = 0
    /\ top_sleep = 0
    /\ feature = "none"
    /\ ob_msg = NoMsg
    /\ ob_before = NoBook
    /\ ob_repeat = FALSE
    /\ top_msg = NoMsg
    /\ top_before = NoTop
    /\ trades = << >>
    /\ handed = << >>
    /\ ob_gap = -1
    /\ top_gap = -1
    /\ RaceIdle
    /\ ConvIdle
    /\ WireIdle
    /\ FrameIdle
    /\ hist = NoHist

\* Line 23:  let (_ob_mmap, order_book) = OrderBook::mmap(..)?;
MapOrderBook(outcome) ==
    /\ main_pc = "start"
    /\ ob_bind' = outcome
    /\ ob_file' = FileAfterMmap(ob_file, OB_WORDS, outcome)
    /\ order_book' = IF outcome = "ok" THEN BookOfWords(ob_file'.words) ELSE order_book
    /\ main_pc' = Propagate(outcome, "ob_mapped")
    /\ UNCHANGED <<ob_pc, ob_sleep, ob_msg, ob_before, ob_repeat, ob_gap,
                   topVars, feature, tob_file, tob_bind, raceVars, convVars,
                   wireVars, frameVars, hist>>

\* Line 24:  let (_tob_mmap, top) = TopOfBook::mmap(..)?;
MapTopOfBook(outcome) ==
    /\ main_pc = "ob_mapped"
    /\ tob_bind' = outcome
    /\ tob_file' = FileAfterMmap(tob_file, TOB_WORDS, outcome)
    /\ top' = IF outcome = "ok" THEN TopOfWords(tob_file'.words) ELSE top
    /\ main_pc' = Propagate(outcome, "tob_mapped")
    /\ UNCHANGED <<top_pc, top_sleep, top_msg, top_before, trades, handed,
                   top_gap, obVars, feature, ob_file, ob_bind, raceVars,
                   convVars,
                   wireVars, frameVars, hist>>

\* Line 34:  let ob_task = tokio::spawn(..)
SpawnObTask ==
    /\ main_pc = "tob_mapped"
    /\ main_pc' = "ob_spawned"
    /\ ob_pc' = "connecting"
    /\ UNCHANGED <<order_book, ob_sleep, ob_msg, ob_before, ob_repeat, ob_gap,
                   topVars, feature, ob_file, tob_file, ob_bind, tob_bind,
                   raceVars, convVars,
                   wireVars, frameVars, hist>>

\* Lines 139 and 230:  let top_task = tokio::spawn(..);  tokio::join!(..)
SpawnTopTask ==
    /\ main_pc = "ob_spawned"
    /\ main_pc' = "joined"
    /\ top_pc' = "connecting"
    /\ UNCHANGED <<top, top_sleep, top_msg, top_before, trades, handed,
                   top_gap, obVars, feature, ob_file, tob_file, ob_bind,
                   tob_bind, raceVars, convVars,
                   wireVars, frameVars, hist>>

NextStart ==
    \/ \E outcome \in BindOutcomes : MapOrderBook(outcome)
    \/ \E outcome \in BindOutcomes : MapTopOfBook(outcome)
    \/ SpawnObTask
    \/ SpawnTopTask
    \/ ObConnectOk
    \/ ObRecvAny(CoreDepthFrames)
    \/ TopConnectOk
    \/ TopRecvAny(CoreTopFrames)

SpecStart == InitStart /\ [][NextStart]_vars

(***************************************************************************)
(* One level of the book at the granularity of its fields: the writer's    *)
(* update_bid(i, price, qty) is store_price then store_qty (lib.rs 51), a  *)
(* reader process loads the price, then the quantity (reader.rs 89-90),    *)
(* with nothing ordering the two processes.                                *)
(***************************************************************************)
\* The (price, quantity) pairs the writer's updates carry.
RaceUpdates ==
    { OrderLevel(MicrosOfStr(sHi), MicrosOfStr(sQty)),
      OrderLevel(MicrosOfStr(sLo), MicrosOfStr(sQty2)),
      OrderLevel(MicrosOfStr(sMid), MicrosOfStr(sZero)) }

\* update_bid, first store: self.bids[i].store_price(price)
WriterStorePrice(u) ==
    /\ writer.pc = "idle"
    /\ level' = store_price(level, u.price)
    /\ writer' = [pc |-> "price_stored", update |-> u]
    /\ written' = written \cup {u}
    /\ UNCHANGED <<reader, obVars, topVars, feature, mainVars, convVars,
                   wireVars, frameVars, hist>>

\* update_bid, second store: self.bids[i].store_qty(qty)
WriterStoreQty ==
    /\ writer.pc = "price_stored"
    /\ level' = store_qty(level, writer.update.qty)
    /\ writer' = WriterIdle
    /\ UNCHANGED <<written, reader, obVars, topVars, feature, mainVars, convVars,
                   wireVars, frameVars, hist>>

\* reader.rs 89:  let bid_price = ob.bids[i].load_price();
ReaderLoadPrice ==
    /\ reader.pc = "start"
    /\ reader' = [pc |-> "price_loaded", price |-> load_price(level), qty |-> -1]
    /\ UNCHANGED <<level, writer, written, obVars, topVars, feature, mainVars,
                   convVars,
                   wireVars, frameVars, hist>>

\* reader.rs 90:  let bid_qty = ob.bids[i].load_qty();
ReaderLoadQty ==
    /\ reader.pc = "price_loaded"
    /\ reader' = [reader EXCEPT !.pc = "done", !.qty = load_qty(level)]
    /\ UNCHANGED <<level, writer, written, obVars, topVars, feature, mainVars,
                   convVars,
                   wireVars, frameVars, hist>>

\* The reader is run again.
ReaderAgain ==
    /\ reader.pc = "done"
    /\ reader' = ReaderStart
    /\ UNCHANGED <<level, writer, written, obVars, topVars, feature, mainVars,
                   convVars,
                   wireVars, frameVars, hist>>

NextRace ==
    \/ \E u \in RaceUpdates : WriterStorePrice(u)
    \/ WriterStoreQty
    \/ ReaderLoadPrice
    \/ ReaderLoadQty
    \/ ReaderAgain

SpecRace == InitBook /\ [][NextRace]_vars

(***************************************************************************)
(* The conversion on its own: a decimal string of the feed goes through    *)
(* parse::<f64>(), * 1_000_000.0 and "as u64" (lines 56-58, 75-79).        *)
(***************************************************************************)
\* Prices and quantities with one integer and one fraction digit, and the
\* two strings the documentation names.
ConvInputs ==
    { <<a, ".", b>> : a \in Digits, b \in Digits } \cup {sHi, sZero}

InitConv ==
    /\ conv_in \in ConvInputs
    /\ conv_out = -1
    /\ StartupDone
    /\ RaceIdle
    /\ FrameIdle
    /\ hist = NoHist
    /\ ob_out = <<SubscribeL2>>
    /\ top_out = << >>
    /\ order_book = ZeroBook
    /\ top = ZeroTop
    /\ ob_pc = "connected"
    /\ top_pc = "connected"
    /\ ob_sleep = 0
    /\ top_sleep = 0
    /\ feature = "none"
    /\ ob_msg = NoMsg
    /\ ob_before = ZeroBook
    /\ ob_repeat = FALSE
    /\ top_msg = NoMsg
    /\ top_before = ZeroTop
    /\ trades = << >>
    /\ handed = << >>
    /\ ob_gap = -1
    /\ top_gap = -1

\* let p = ..parse::<f64>().ok()).unwrap_or(0.0);  (p*1_000_000.0) as u64
Convert ==
    /\ conv_out = -1
    /\ conv_out' = ToMicrosOrZero(JStr(conv_in))
    /\ UNCHANGED <<conv_in, obVars, topVars, feature, mainVars, raceVars,
                   wireVars, frameVars, hist>>

NextConv == Convert

SpecConv == InitConv /\ [][NextConv]_vars

(***************************************************************************)
(* Vocabulary of the properties.                                           *)
(***************************************************************************)
\* The item was a text frame that parsed as JSON.
Parsed(msg) == msg.k = "text" /\ msg.v.t # "invalid"

HasList(msg, key) == Parsed(msg) /\ IsArray(GetKey(msg.v, key))

ListOf(msg, key) == GetKey(msg.v, key).a

\* A [price, quantity] pair of decimal strings.
GoodLevel(l) == ParsesF64(GetIdx(l, 0)) /\ ParsesF64(GetIdx(l, 1))

GoodList(msg, key) ==
    HasList(msg, key) => \A i \in 1..Len(ListOf(msg, key)) : GoodLevel(ListOf(msg, key)[i])

\* A depth snapshot: a bids and/or an asks list, no changes list.
IsSnapshot(msg) ==
    /\ HasList(msg, "bids") \/ HasList(msg, "asks")
    /\ ~HasList(msg, "changes")

ValidSnapshot(msg) ==
    IsSnapshot(msg) /\ GoodList(msg, "bids") /\ GoodList(msg, "asks")

\* A frame whose only list is a changes list with exactly one triple that
\* parses, on a side the feed defines.
RecognisedSide(sd) ==
    eq_ignore_ascii_case(sd, Buy) \/ eq_ignore_ascii_case(sd, Sell)

SingleChange(msg) ==
    /\ HasList(msg, "changes") /\ ~HasList(msg, "bids") /\ ~HasList(msg, "asks")
    /\ Len(ListOf(msg, "changes")) = 1
    /\ ChangeParses(ListOf(msg, "changes")[1])
    /\ RecognisedSide(GetIdx(ListOf(msg, "changes")[1], 0).s)

TheChange(msg) == ListOf(msg, "changes")[1]

ChangeIsBuy(ch) == eq_ignore_ascii_case(GetIdx(ch, 0).s, Buy)

ChangePu(ch) == ToMicros(GetIdx(ch, 1))

ChangeQu(ch) == ToMicros(GetIdx(ch, 2))

Empty == OrderLevel(0, 0)

\* C1: a change with converted quantity 0 whose converted price is the price
\* of a populated slot of the addressed side clears that slot and changes
\* no other slot of either side.
C1_RemovalClearsOnlyThatSlot ==
    SingleChange(ob_msg) /\ ChangeQu(TheChange(ob_msg)) = 0
                         /\ ChangePu(TheChange(ob_msg)) # 0
    => LET pu == ChangePu(TheChange(ob_msg))
       IN  IF ChangeIsBuy(TheChange(ob_msg))
           THEN LET held == {j \in Slots : ob_before.bids[j].price = pu}
                IN  held # {} =>
                      \E j \in held :
                          /\ order_book.bids = [ob_before.bids EXCEPT ![j] = Empty]
                          /\ order_book.asks = ob_before.asks
           ELSE LET held == {j \in Slots : ob_before.asks[j].price = pu}
                IN  held # {} =>
                      \E j \in held :
                          /\ order_book.asks = [ob_before.asks EXCEPT ![j] = Empty]
                          /\ order_book.bids = ob_before.bids

\* The slots of one side hold, position by position, the conversions of the
\* entries of the frame's list for that side.
SlotsFollowList(side, msg, key) ==
    HasList(msg, key) =>
        \A i \in Slots :
            i < Min(Len(ListOf(msg, key)), BOOK_DEPTH) =>
                side[i] = OrderLevel(ToMicros(GetIdx(ListOf(msg, key)[i + 1], 0)),
                                     ToMicros(GetIdx(ListOf(msg, key)[i + 1], 1)))

\* C2: after a valid snapshot, slot i of each side it lists holds the
\* converted price and quantity of the list's i-th entry, for every
\* i < min(list length, 50); an entry "145.85" @ "2.5" is stored as
\* (145850000, 2500000).
C2_SnapshotFillsSlots ==
    ValidSnapshot(ob_msg) =>
        /\ SlotsFollowList(order_book.bids, ob_msg, "bids")
        /\ SlotsFollowList(order_book.asks, ob_msg, "asks")
        /\ \A i \in Slots :
             /\ HasList(ob_msg, "bids") /\ i < Len(ListOf(ob_msg, "bids"))
                  /\ ListOf(ob_msg, "bids")[i + 1] = Level(sHi, sQty)
                => order_book.bids[i] = OrderLevel(145850000, 2500000)
             /\ HasList(ob_msg, "asks") /\ i < Len(ListOf(ob_msg, "asks"))
                  /\ ListOf(ob_msg, "asks")[i + 1] = Level(sHi, sQty)
                => order_book.asks[i] = OrderLevel(145850000, 2500000)

\* A snapshot longer than the book was handled: slot 49 holds its 50th entry.
C2_Witness ==
    /\ ValidSnapshot(ob_msg)
    /\ HasList(ob_msg, "bids") /\ Len(ListOf(ob_msg, "bids")) > BOOK_DEPTH
    /\ HasList(ob_msg, "asks")
    /\ order_book.bids[BOOK_DEPTH - 1] = OrderLevel(9500000, 1800000)
    /\ order_book.asks[0] = OrderLevel(9500000, 2500000)
    /\ ob_before.bids[BOOK_DEPTH - 1] = Empty

\* C3: when a stream ends, the task's next connection attempt starts no
\* sooner than 5 seconds after the end.
C3_ReconnectWaitsFiveSeconds ==
    /\ ob_gap # -1 => ob_gap >= RETRY_SECS
    /\ top_gap # -1 => top_gap >= RETRY_SECS

\* C4: after a parsed depth frame that carries a timestampms number, the
\* book's timestamp is that number, whichever lists the frame carries.
C4_TimestampAlwaysStored ==
    Parsed(ob_msg) /\ IsU64(GetKey(ob_msg.v, "timestampms"))
    => order_book.timestamp_ms = GetKey(ob_msg.v, "timestampms").n

\* A list with an entry whose price or quantity is missing or not a decimal
\* string; a change triple with an unparseable field or an unknown side.
BadList(msg, key) == HasList(msg, key) /\ ~GoodList(msg, key)

BadChange(ch) == ~ChangeParses(ch) \/ ~RecognisedSide(GetIdx(ch, 0).s)

BadChanges(msg) ==
    HasList(msg, "changes") /\
        \E i \in 1..Len(ListOf(msg, "changes")) : BadChange(ListOf(msg, "changes")[i])

Malformed(msg) ==
    /\ msg.k = "text"
    /\ \/ msg.v.t = "invalid"
       \/ BadList(msg, "bids")
       \/ BadList(msg, "asks")
       \/ BadChanges(msg)

\* C5: a malformed or schema-mismatched depth frame changes no slot and
\* not the timestamp, and the task stays in its read loop.
C5_MalformedFrameIgnored ==
    Malformed(ob_msg) => order_book = ob_before /\ ob_pc # "panicked"

\* C6: a failed publish, a failure to create or reach the bus client
\* included, does not end top_task.
C6_PublishFailureSwallowed == top_pc # "panicked"

\* C7: handling the same snapshot twice in a row leaves the book (all slots
\* and the timestamp) as the first handling left it.
C7_SnapshotIdempotent ==
    ob_repeat /\ IsSnapshot(ob_msg) => order_book = ob_before

\* The same snapshot was handled twice in a row, on a book it had changed.
C7_Witness ==
    /\ ob_repeat /\ ValidSnapshot(ob_msg)
    /\ HasList(ob_msg, "bids") /\ Len(ListOf(ob_msg, "bids")) >= 2
    /\ order_book.bids[1] = OrderLevel(4099999, 2500000)
    /\ order_book.timestamp_ms = 1
    /\ order_book = ob_before

\* C8: a bid change whose converted price is higher than the price in bid
\* slot 0 leaves bid slot 0 holding the change's (price, quantity).
C8_HigherBidTakesSlotZero ==
    SingleChange(ob_msg) /\ ChangeIsBuy(TheChange(ob_msg))
        /\ ChangePu(TheChange(ob_msg)) > ob_before.bids[0].price
    => order_book.bids[0] = OrderLevel(ChangePu(TheChange(ob_msg)),
                                       ChangeQu(TheChange(ob_msg)))

\* A bid at 145.85 arrived while slot 0 held 4.1 (stored as 4099999).
C8_Witness ==
    /\ SingleChange(ob_msg) /\ ChangeIsBuy(TheChange(ob_msg))
    /\ ob_before.bids[0] = OrderLevel(4099999, 2500000)
    /\ order_book.bids[0] = OrderLevel(145850000, 2500000)

EventsOf(msg) == IF HasList(msg, "events") THEN ListOf(msg, "events") ELSE << >>

EnvelopeTs(msg) ==
    IF IsU64(GetKey(msg.v, "timestampms")) THEN GetKey(msg.v, "timestampms").n ELSE 0

IsTradeEv(e) == IsStr(GetKey(e, "type")) /\ GetKey(e, "type").s = Trade

IsChangeEv(e, side) ==
    /\ IsStr(GetKey(e, "type")) /\ GetKey(e, "type").s = Change
    /\ IsStr(GetKey(e, "side")) /\ GetKey(e, "side").s = side

\* The TradeEvents the claim expects for a frame: one per trade event, in
\* the order of the frame.
ExpectedTrades(msg) ==
    LET tr == SelectSeq(EventsOf(msg), IsTradeEv)
    IN  [n \in 1..Len(tr) |->
            [ts_ms   |-> EnvelopeTs(msg),
             symbol  |-> <<"S", "O", "L", "U", "S", "D">>,
             price_u |-> ToMicros(GetKey(tr[n], "price")),
             qty_u   |-> ToMicros(GetKey(tr[n], "amount")),
             side    |-> GetKey(tr[n], "makerSide").s]]

\* C9: for every trade event of a parsed frame exactly one TradeEvent is
\* built and handed to the publisher, in frame order, with the envelope's
\* timestamp, symbol SOLUSD, the converted price and amount, and the
\* makerSide.  (Without a publish feature the build has no publisher and
\* building the event is all there is.)
C9_EveryTradeHanded ==
    HasList(top_msg, "events") =>
        /\ trades = ExpectedTrades(top_msg)
        /\ feature # "none" => handed = ExpectedTrades(top_msg)

\* The events of top_msg that the loop got to: all of them, or those up to
\* the trade whose publish panicked.
ReachedEvents(msg) ==
    LET evs == EventsOf(msg)
    IN  IF top_pc = "panicked"
        THEN LET last == CHOOSE i \in 1..Len(evs) :
                            /\ IsTradeEv(evs[i])
                            /\ Cardinality({j \in 1..i : IsTradeEv(evs[j])}) = Len(trades)
             IN  SubSeq(evs, 1, last)
        ELSE evs

LastChange(evs, side) ==
    LET idx == {i \in 1..Len(evs) : IsChangeEv(evs[i], side)}
    IN  IF idx = {} THEN 0 ELSE CHOOSE i \in idx : \A j \in idx : j <= i

\* C10: a change event with side bid (ask) leaves the store's bid (ask)
\* price and quantity at the conversions of its price and remaining, the
\* store's timestamp at the envelope's, and the other side as it was.
\* On the frame: each side holds its last change of the frame, a side
\* without a change is as before the frame.
C10_ChangeOverwritesItsSide ==
    HasList(top_msg, "events") =>
        LET evs == ReachedEvents(top_msg)
            b   == LastChange(evs, Bid)
            a   == LastChange(evs, Ask)
        IN  /\ IF b # 0
               THEN /\ top.bid_price = ToMicros(GetKey(evs[b], "price"))
                    /\ top.bid_qty = ToMicros(GetKey(evs[b], "remaining"))
               ELSE /\ top.bid_price = top_before.bid_price
                    /\ top.bid_qty = top_before.bid_qty
            /\ IF a # 0
               THEN /\ top.ask_price = ToMicros(GetKey(evs[a], "price"))
                    /\ top.ask_qty = ToMicros(GetKey(evs[a], "remaining"))
               ELSE /\ top.ask_price = top_before.ask_price
                    /\ top.ask_qty = top_before.ask_qty
            /\ (b # 0 \/ a # 0) /\ IsU64(GetKey(top_msg.v, "timestampms"))
                  => top.timestamp_ms = GetKey(top_msg.v, "timestampms").n

\* A bid change at 145.85 @ 2.5 in an envelope stamped 3 was handled while
\* the ask side was populated by an earlier frame.
C10_Witness ==
    /\ LastChange(EventsOf(top_msg), Bid) # 0
    /\ LastChange(EventsOf(top_msg), Ask) = 0
    /\ top_before.ask_price = 145850000 /\ top_before.timestamp_ms = 4
    /\ top.bid_price = 145850000 /\ top.bid_qty = 2500000
    /\ top.ask_price = 145850000 /\ top.ask_qty = 1800000
    /\ top.timestamp_ms = 3

\* The events of top_msg the loop got to hold no change event.
NoChangeReached(msg) ==
    \A i \in 1..Len(ReachedEvents(msg)) :
        ~(IsStr(GetKey(ReachedEvents(msg)[i], "type"))
            /\ GetKey(ReachedEvents(msg)[i], "type").s = Change)

\* C11: a frame whose events are trades and events of other types (no
\* change event) leaves every field of the Top-of-Book Store as it was, and
\* the top-of-book task leaves the Book Store as it was created.
C11_TradeWritesNoStore ==
    HasList(top_msg, "events") /\ NoChangeReached(top_msg)
    => top = top_before /\ order_book = ZeroBook

\* Two trades were built from one frame while the store was populated.
C11_Witness ==
    /\ HasList(top_msg, "events") /\ NoChangeReached(top_msg)
    /\ Len(trades) = 2
    /\ top = top_before
    /\ top.bid_price = 145850000 /\ top.ask_price = 145850000

\* A step changed a variable of the depth task / of the top-of-book task.
ObTaskStepped == <<order_book, ob_pc, ob_msg, ob_before, ob_repeat, ob_gap>>' #
                 <<order_book, ob_pc, ob_msg, ob_before, ob_repeat, ob_gap>>

TopTaskStepped == <<top, top_pc, top_msg, top_before, trades, handed, top_gap>>' #
                  <<top, top_pc, top_msg, top_before, trades, handed, top_gap>>

\* C12: in every interleaving, a step that writes a Book Store field is a
\* step of the depth task alone and a step that writes a Top-of-Book field
\* is a step of the top-of-book task alone; no step writes both stores.
C12_SingleWriter ==
    [][ /\ order_book' # order_book => ~TopTaskStepped
        /\ top' # top => ~ObTaskStepped ]_vars

\* Both tasks are in their read loops and both stores have been written.
C12_Witness ==
    /\ ob_pc = "connected" /\ top_pc = "connected"
    /\ order_book.bids[0].price # 0 /\ order_book.timestamp_ms # 0
    /\ top.bid_price # 0 /\ top.timestamp_ms # 0

\* C13: neither feed task ever ends: each is always connecting, in its
\* read loop, or waiting to retry.
C13_TasksNeverEnd ==
    /\ ob_pc \in {"connecting", "connected", "sleeping"}
    /\ top_pc \in {"connecting", "connected", "sleeping"}

\* C14: when the binding of a store fails at startup, main returns the
\* error at once (the other store is not bound after it, nothing is
\* retried), and no feed task is ever spawned: no connection attempt, no
\* frame handled, no field written.
C14_MapFailureIsFatal ==
    ob_bind \in BindErrors \/ tob_bind \in BindErrors
    => /\ main_pc = "failed"
       /\ ob_pc = "unspawned" /\ top_pc = "unspawned"
       /\ ob_msg = NoMsg /\ top_msg = NoMsg
       /\ top = NoTop
       /\ ob_bind \in BindErrors => tob_bind = "none" /\ order_book = NoBook
       /\ tob_bind \in BindErrors =>
             ob_bind = "ok" /\ order_book = BookOfWords(ob_file.words)

\* The book was mapped from the previous instance's image, then the mapping
\* of the top of book failed.
C14_Witness ==
    /\ ob_bind = "ok" /\ tob_bind = "map_failed"
    /\ order_book = PriorBook
    /\ main_pc = "failed"
    /\ ob_pc = "unspawned" /\ top_pc = "unspawned"

\* C15: a successful binding to a path without a file creates the file at
\* exactly the structure's size with every field 0; a successful binding to
\* the image a previous instance left yields that instance's field values
\* and leaves the file as it was.
C15_BindCreatesOrReuses ==
    [][ /\ ob_bind = "none" /\ ob_bind' = "ok" =>
            /\ ob_file = NoFile =>
                  /\ ob_file'.exists /\ Len(ob_file'.words) = 201
                  /\ order_book' = ZeroBook
            /\ ob_file = FileOf(WordsOfBook(PriorBook)) =>
                  /\ ob_file' = ob_file
                  /\ order_book' = PriorBook
        /\ tob_bind = "none" /\ tob_bind' = "ok" =>
            /\ tob_file = NoFile =>
                  /\ tob_file'.exists /\ Len(tob_file'.words) = 5
                  /\ top' = ZeroTop
            /\ tob_file = FileOf(WordsOfTop(PriorTop)) =>
                  /\ tob_file' = tob_file
                  /\ top' = PriorTop ]_vars

\* The book came from the previous instance's image (bid slot 1 holds its
\* "4.1" @ "1.8"), the top of book from a file that did not exist.
C15_Witness ==
    /\ ob_bind = "ok" /\ tob_bind = "ok"
    /\ order_book = PriorBook
    /\ order_book.bids[1] = OrderLevel(4099999, 1800000)
    /\ order_book.timestamp_ms = 4
    /\ top = ZeroTop /\ Len(tob_file.words) = 5

\* A step on the connection path of a task: out of the read loop at the
\* end of the stream, into or out of the retry sleep, into the read loop.
Reconnecting(pc, pc2) ==
    pc # pc2 /\ pc2 \in {"connecting", "connected", "sleeping"}

\* C16: disconnecting and reconnecting writes nothing: every step between
\* the end of a stream and the read loop of the next connection leaves
\* every slot and the timestamp of the task's store as they were.
C16_ReconnectKeepsStore ==
    [][ /\ Reconnecting(ob_pc, ob_pc') => order_book' = order_book
        /\ Reconnecting(top_pc, top_pc') => top' = top ]_vars

\* Both tasks are in the read loop of a later connection, and a frame
\* received on it has updated the store that the earlier one filled.
C16_Witness ==
    /\ ob_gap # -1 /\ ob_pc = "connected"
    /\ top_gap # -1 /\ top_pc = "connected"
    /\ ob_before.bids[0] = OrderLevel(4099999, 2500000)
    /\ order_book.bids[0] = OrderLevel(145850000, 2500000)
    /\ top.bid_price = 145850000

\* C17: a reader loading a level's price and quantity while the writer
\* updates the level gets, for each field, the initial 0 or a value some
\* update stored into that field; the pair itself need not be one that an
\* update wrote (see the witness).
C17_FieldReadsAreWritten ==
    /\ reader.pc \in {"price_loaded", "done"} =>
          reader.price \in {0} \cup {u.price : u \in written}
    /\ reader.pc = "done" =>
          reader.qty \in {0} \cup {u.qty : u \in written}

\* The reader holds the price of one update with the quantity of another:
\* a pair that is neither the initial (0, 0) nor written by any update.
C17_Witness ==
    /\ reader.pc = "done"
    /\ reader.price = 4099999 /\ reader.qty = 2500000
    /\ OrderLevel(reader.price, reader.qty) \notin written \cup {OrderLevel(0, 0)}
    /\ writer.pc = "price_stored"

\* C18: the conversion of a non-negative decimal string is its value times
\* 1,000,000, truncated; "145.85" converts to 145850000 and "0" to 0.
C18_ConversionExact ==
    conv_out # -1 =>
        /\ conv_out = ExactMicros(ParseDecimal(conv_in))
        /\ conv_in = sHi => conv_out = 145850000
        /\ conv_in = sZero => conv_out = 0

\* C19: the step in which a task's read yields an I/O error takes the task
\* out of the read loop of that connection, onto the reconnect path.
C19_ReadErrorDisconnects ==
    [][ /\ ObRecv(ErrItem) => ob_pc' # "connected"
        /\ TopRecv(ErrItem, << >>) => top_pc' # "connected" ]_vars

\* The slots of a side that differ between two books.
ChangedSlots(before, after) == {i \in Slots : after[i] # before[i]}

\* A frame whose only list is a changes list.
ChangesOnly(msg) ==
    HasList(msg, "changes") /\ ~HasList(msg, "bids") /\ ~HasList(msg, "asks")

\* A changes list of exactly one triple that parses, whatever its side.
OneChange(msg) ==
    /\ ChangesOnly(msg)
    /\ Len(ListOf(msg, "changes")) = 1
    /\ ChangeParses(ListOf(msg, "changes")[1])

\* No rule of the scan matches (pu, qu) in the first ten slots of a side.
NoBidRule(bids, pu) ==
    \A i \in 0..9 : bids[i].price # 0 /\ bids[i].price # pu /\ ~(pu > bids[i].price)

NoAskRule(asks, pu) ==
    \A i \in 0..9 :
        asks[i].price # 0 /\ asks[i].price # pu /\ ~(asks[i].price > pu /\ pu > 0)

ListSlots(msg, key) ==
    IF HasList(msg, key)
    THEN {i \in Slots : i < Min(Len(ListOf(msg, key)), BOOK_DEPTH)}
    ELSE {}

\* C21: a bids (asks) list of length L overwrites only slots 0..min(L,50)-1
\* of its side: the slots behind it keep their contents, and the list
\* modifies no slot of the opposite side.
C21_ListOverwritesOnlyItsPrefix ==
    (Parsed(ob_msg) /\ ~HasList(ob_msg, "changes")) =>
        /\ ChangedSlots(ob_before.bids, order_book.bids) \subseteq ListSlots(ob_msg, "bids")
        /\ ChangedSlots(ob_before.asks, order_book.asks) \subseteq ListSlots(ob_msg, "asks")

\* A bids list of one entry arrived at a book with two bids and two asks:
\* slot 0 was overwritten, bid slot 1 and the asks are as they were.
C21_Witness ==
    /\ HasList(ob_msg, "bids") /\ Len(ListOf(ob_msg, "bids")) = 1
    /\ ~HasList(ob_msg, "asks") /\ ~HasList(ob_msg, "changes")
    /\ order_book.bids[0] # ob_before.bids[0]
    /\ ob_before.bids[1].price # 0
    /\ order_book.bids[1] = ob_before.bids[1]
    /\ ob_before.asks[0].price # 0
    /\ order_book.asks = ob_before.asks

\* C22: whenever the depth task is in the read loop of a connection, it has
\* sent on that connection exactly one message, the subscription to the l2
\* feed of SOLUSD, and this holds for every connection, the first and those
\* after a reconnect; whatever the top-of-book task has sent on its
\* connection is a Pong, never a subscription.
C22_SubscribesOncePerConnection ==
    /\ ob_pc = "connected" => ob_out = <<SubscribeL2>>
    /\ top_pc = "connected" => \A k \in 1..Len(top_out) : top_out[k] = Pong

\* Both tasks are in the read loop of a second connection, entered after
\* the first stream ended; the depth task read frames on the first one.
C22_Witness ==
    /\ ob_pc = "connected" /\ ob_gap = 0 /\ ob_msg # NoMsg
    /\ ob_out = <<SubscribeL2>>
    /\ top_pc = "connected" /\ top_gap = 0 /\ top_msg = Ping
    /\ top_out = <<Pong>>

\* Bid p has priority over bid q, ask p over ask q.
BidBefore(p, q) == p > q

AskBefore(p, q) == p < q

\* Slots j < i of the scanned window hold prices out of priority order.
BidsOutOfOrder(ob, j, i) ==
    /\ j < i /\ i < SCAN_WINDOW
    /\ ob.bids[j].price # 0 /\ ob.bids[i].price # 0
    /\ BidBefore(ob.bids[i].price, ob.bids[j].price)

AsksOutOfOrder(ob, j, i) ==
    /\ j < i /\ i < SCAN_WINDOW
    /\ ob.asks[j].price # 0 /\ ob.asks[i].price # 0
    /\ AskBefore(ob.asks[i].price, ob.asks[j].price)

BidsOrdered(ob) ==
    \A i \in Slots : i + 1 \in Slots =>
        /\ ob.bids[i].price = 0 => ob.bids[i + 1].price = 0
        /\ ob.bids[i + 1].price # 0 => ob.bids[i].price > ob.bids[i + 1].price

AsksOrdered(ob) ==
    \A i \in Slots : i + 1 \in Slots =>
        /\ ob.asks[i].price = 0 => ob.asks[i + 1].price = 0
        /\ ob.asks[i + 1].price # 0 => ob.asks[i].price < ob.asks[i + 1].price

\* C24: from the empty book, while every change has carried a non-zero
\* price and a non-zero quantity, the populated slots of each side are a
\* prefix of the side, bids strictly decreasing and asks strictly
\* increasing with the index.
C24_InsertsKeepOrder ==
    hist.inserts => BidsOrdered(order_book) /\ AsksOrdered(order_book)

\* Four such changes: three bids, the third overwriting slot 0, and an ask.
C24_Witness ==
    /\ hist.inserts /\ hist.n = 4
    /\ order_book.bids[0].price = 145850000 /\ hist.bids[0] = 3
    /\ order_book.bids[1].price = 4099999 /\ order_book.bids[2].price = 0
    /\ order_book.asks[0].price # 0

\* C25: from the empty book, after any changes, no two slots of a side
\* hold the same non-zero price.
C25_NoDuplicatePrice ==
    \A j, i \in Slots :
        j # i =>
            /\ order_book.bids[j].price # 0 => order_book.bids[j].price # order_book.bids[i].price
            /\ order_book.asks[j].price # 0 => order_book.asks[j].price # order_book.asks[i].price

\* C26: a slot whose price is 0 has quantity 0.
C26_EmptySlotHasNoQuantity ==
    \A i \in Slots :
        /\ order_book.bids[i].price = 0 => order_book.bids[i].qty = 0
        /\ order_book.asks[i].price = 0 => order_book.asks[i].qty = 0

\* C27: once a set_ts of the frame in process has stored the frame's
\* timestamp, no slot write of that frame is still to come.
C27_TimestampAfterSlots ==
    stamped => \A k \in 1..Len(steps) : ~SlotStep(steps[k])

=============================================================================
